---- MODULE Spec2Model ----
(***************************************************************************)
(* go-lambda-api: the request router (cmd/lambda), the user and health     *)
(* handlers, the response helpers (utils) and the two user repositories    *)
(* (models), as one state machine.  A gateway event arrives (Receive),     *)
(* Router dispatches it in one step (Handle), the response is returned to  *)
(* the host (Respond).                                                     *)
(*                                                                         *)
(* Three further specifications cover internal/app and concurrent use:     *)
(* ServerSpec serves HTTP requests through the ServeMux and adapt of       *)
(* startLocalServer, ShutdownSpec follows the connections of the local     *)
(* server through a signal and server.Shutdown, and ConcSpec runs handlers *)
(* in goroutines on one repository, one repository call per step.          *)
(*                                                                         *)
(* The DynamoDB table is modelled as a map from the value of the key       *)
(* attribute to the stored item; every call to the service may fail.  The  *)
(* table's key schema lives in deployment configuration outside the        *)
(* source, so the model identifies the Key of GetItem/DeleteItem with the  *)
(* id attribute of the item that PutItem wrote.                            *)
(***************************************************************************)
EXTENDS Integers, Sequences, FiniteSets, TLC

\* ------------------------------------------------------------------ bounds
MaxUsers == 2          \* how many identifiers uuid.New() hands out in a run

\* ------------------------------------------------- constants of the source
StatusOK == 200
StatusCreated == 201
StatusNoContent == 204
StatusBadRequest == 400
StatusNotFound == 404
StatusMethodNotAllowed == 405
StatusInternalServerError == 500

UsersIDPath == "/users/{id}"
RootPath == "/"
HealthPath == "/health"
UsersPath == "/users"

MethodGet == "GET"
MethodPost == "POST"
MethodPut == "PUT"
MethodDelete == "DELETE"
MethodOptions == "OPTIONS"

\* ------------------------------------------------------------ base values
\* uuid.New().String(): the i-th identifier generated in this process.
UUIDOf(i) == "u" \o ToString(i)
UUIDs == {UUIDOf(i) : i \in 1..MaxUsers}

\* time.Time rendered as text (json and dynamodbattribute both use RFC 3339)
\* and read back.  Instant 0 is the zero time.Time.
FormatTime(t) == "T" \o ToString(t)
ParseTime(s) == CHOOSE t \in 0..(MaxUsers + 1) : FormatTime(t) = s

ZeroUser == [ID |-> "", Name |-> "", Email |-> "", CreatedAt |-> 0]

\* ------------------------------------------------------------- the inputs
Names == {"", "Alice", "Bob"}
Emails == {"", "a@x", "b@x"}

\* A request body: text that is or is not well-formed JSON, and, when it is,
\* the members it carries ("" for a member that is absent or empty).
MalformedBody == [wellformed |-> FALSE, id |-> "", name |-> "", email |-> ""]
Bodies ==
    {MalformedBody} \cup
    [wellformed : {TRUE}, id : {"", UUIDOf(1)}, name : Names, email : Emails]
PlainBodies == {MalformedBody, [wellformed |-> TRUE, id |-> "", name |-> "Alice", email |-> "a@x"]}

Methods == {MethodGet, MethodPost, MethodPut, MethodDelete, MethodOptions}
IDPaths == {UsersIDPath, UsersPath \o "/" \o UUIDOf(1)}
Paths == {RootPath, HealthPath, UsersPath, "/orders"} \cup IDPaths
PathIds == {""} \cup UUIDs

\* events.APIGatewayProxyRequest, the members the program reads.
\* PathParameters.id is the result of the lookup PathParameters["id"]; the
\* gateway binds it only on a path below /users.  Every request carries one
\* of two bodies, a create or an update any body of Bodies.
Requests ==
    [HTTPMethod : Methods, Path : Paths \ IDPaths, PathParameters : [id : {""}], Body : PlainBodies]
    \cup
    [HTTPMethod : Methods, Path : IDPaths, PathParameters : [id : PathIds], Body : PlainBodies]
    \cup
    [HTTPMethod : {MethodPost}, Path : {UsersPath}, PathParameters : [id : {""}], Body : Bodies]
    \cup
    [HTTPMethod : {MethodPut}, Path : {UsersIDPath}, PathParameters : [id : PathIds], Body : Bodies]

\* ------------------------------------------------------------------ utils
\* A Go map[string]string: nil, or a finite map.
EmptyKV == [k \in {} |-> ""]
NilMap == [isNil |-> TRUE, kv |-> EmptyKV]
MakeMap(kv) == [isNil |-> FALSE, kv |-> kv]
HasKey(m, k) == k \in DOMAIN m.kv
\* m[k] = v on a map that is not nil.
MapSet(m, k, v) ==
    MakeMap([x \in (DOMAIN m.kv) \cup {k} |-> IF x = k THEN v ELSE m.kv[x]])

ContentTypeHeaders == MakeMap([k \in {"Content-Type"} |-> "application/json"])

\* events.APIGatewayProxyResponse; the zero value has StatusCode 0 and nil Headers.
Response(statusCode, headers, body) ==
    [StatusCode |-> statusCode, Headers |-> headers, Body |-> body]
ZeroResponse == Response(0, NilMap, "")

\* The values handed to jsonMarshal: nil, a map with one "message" or "error"
\* member, a User, a slice of User.
NilBody == [kind |-> "nil", msg |-> "", users |-> <<>>]
MessageBody(m) == [kind |-> "message", msg |-> m, users |-> <<>>]
ErrorBody(m) == [kind |-> "error", msg |-> m, users |-> <<>>]
UserBody(u) == [kind |-> "user", msg |-> "", users |-> <<u>>]
ListBody(us) == [kind |-> "list", msg |-> "", users |-> us]

JSONUser(u) ==
    "{\"id\":\"" \o u.ID \o "\",\"name\":\"" \o u.Name \o "\",\"email\":\"" \o u.Email
        \o "\",\"created_at\":\"" \o FormatTime(u.CreatedAt) \o "\"}"

RECURSIVE JSONUsers(_)
JSONUsers(us) ==
    IF Len(us) = 0 THEN ""
    ELSE IF Len(us) = 1 THEN JSONUser(us[1])
    ELSE JSONUser(us[1]) \o "," \o JSONUsers(Tail(us))

\* json.Marshal of those values, when it succeeds.
JSONMarshal(v) ==
    CASE v.kind = "message" -> "{\"message\":\"" \o v.msg \o "\"}"
      [] v.kind = "error" -> "{\"error\":\"" \o v.msg \o "\"}"
      [] v.kind = "user" -> JSONUser(v.users[1])
      [] v.kind = "list" -> "[" \o JSONUsers(v.users) \o "]"

\* The error text a failing jsonMarshal returns.
JSONErrText == "json: unsupported value"

EnsureHeaders(response) ==
    LET h == IF response.Headers.isNil THEN MakeMap(EmptyKV) ELSE response.Headers
    IN  IF HasKey(h, "Content-Type") THEN [response EXCEPT !.Headers = h]
        ELSE [response EXCEPT !.Headers = MapSet(h, "Content-Type", "application/json")]

\* APIResponse(statusCode, body); jsonErr: the call of jsonMarshal fails.
\* Returns the response and the error ("" is nil).
APIResponse(statusCode, body, jsonErr) ==
    IF body.kind # "nil" /\ jsonErr
    THEN [response |-> Response(StatusInternalServerError, ContentTypeHeaders,
                                "{\"error\": \"" \o JSONErrText \o "\"}"),
          err |-> "failed to marshal response body: " \o JSONErrText]
    ELSE [response |-> EnsureHeaders(Response(statusCode, ContentTypeHeaders,
                                IF body.kind = "nil" THEN "" ELSE JSONMarshal(body))),
          err |-> ""]

\* ErrorResponse(statusCode, err) for a non-nil err with text errMessage.
ErrorResponse(statusCode, errMessage, jsonErr) ==
    IF jsonErr
    THEN [response |-> Response(StatusInternalServerError, NilMap,
                                "{\"error\": \"failed to marshal error response\"}"),
          err |-> ""]
    ELSE [response |-> EnsureHeaders(Response(statusCode, ContentTypeHeaders,
                                JSONMarshal(ErrorBody(errMessage)))),
          err |-> ""]

\* ----------------------------------------------------------------- models
\* json.Unmarshal of the body into a UserRequest: only name and email are
\* members of UserRequest, any other member of the body is dropped.
JSONUnmarshal(body) ==
    IF body.wellformed
    THEN [req |-> [Name |-> body.name, Email |-> body.email], err |-> ""]
    ELSE [req |-> [Name |-> "", Email |-> ""], err |-> "unexpected end of JSON input"]

\* A Validate that lets an update without fields through.
Validate_NoEmptyPatchCheck(ur, isUpdate) ==
    IF ~isUpdate
    THEN IF ur.Name = "" THEN "name is required"
         ELSE IF ur.Email = "" THEN "email is required"
         ELSE ""
    ELSE ""

\* UserRequest.Validate: the error text, "" for nil.
Validate(ur, isUpdate) ==
    IF ~isUpdate
    THEN IF ur.Name = "" THEN "name is required"
         ELSE IF ur.Email = "" THEN "email is required"
         ELSE ""
    ELSE IF ur.Name = "" /\ ur.Email = "" THEN "no fields to update"
    ELSE ""

\* f with key k removed / bound to v.
MapDelete(f, k) == [x \in (DOMAIN f) \ {k} |-> f[x]]
MapPut(f, k, v) == [x \in (DOMAIN f) \cup {k} |-> IF x = k THEN v ELSE f[x]]

\* inMemoryUserRepository, on the map users.
InMemGetUserByID(users, id) ==
    IF id \notin DOMAIN users
    THEN [user |-> ZeroUser, err |-> "user not found"]
    ELSE [user |-> users[id], err |-> ""]

\* A CreateUser that reports success without writing the map.
InMemCreateUser_NoStore(users, user) == [user |-> user, err |-> "", users |-> users]

InMemCreateUser(users, user) ==
    [user |-> user, err |-> "", users |-> MapPut(users, user.ID, user)]

InMemUpdateUser(users, user) ==
    IF user.ID \notin DOMAIN users
    THEN [user |-> ZeroUser, err |-> "user not found", users |-> users]
    ELSE [user |-> user, err |-> "", users |-> MapPut(users, user.ID, user)]

InMemDeleteUser(users, id) ==
    IF id \notin DOMAIN users
    THEN [err |-> "user not found", users |-> users]
    ELSE [err |-> "", users |-> MapDelete(users, id)]

\* The users of the map in the order given by order (a sequence that names
\* every identifier once): ranging over a Go map visits it in any order.
RECURSIVE InOrder(_, _)
InOrder(order, users) ==
    IF Len(order) = 0 THEN <<>>
    ELSE IF order[1] \in DOMAIN users
         THEN <<users[order[1]]>> \o InOrder(Tail(order), users)
         ELSE InOrder(Tail(order), users)

\* A GetAllUsers whose slice is made with a length instead of a capacity.
InMemGetAllUsers_MadeWithLen(users, order) ==
    [i \in 1..Cardinality(DOMAIN users) |-> ZeroUser] \o InOrder(order, users)

InMemGetAllUsers(users, order) == InOrder(order, users)

\* dynamodbattribute: a string member becomes an S attribute, the empty
\* string a NULL attribute; a time.Time becomes an S attribute holding its
\* text.  The attribute names are those of the struct's tags.
AttributeValue(s) == IF s = "" THEN [T |-> "NULL", S |-> ""] ELSE [T |-> "S", S |-> s]

MarshalMap(user) ==
    [id |-> AttributeValue(user.ID), name |-> AttributeValue(user.Name),
     email |-> AttributeValue(user.Email),
     created_at |-> [T |-> "S", S |-> FormatTime(user.CreatedAt)]]

UnmarshalMap(item) ==
    [ID |-> item.id.S, Name |-> item.name.S, Email |-> item.email.S,
     CreatedAt |-> ParseTime(item.created_at.S)]

\* The error text of a failing call to the service or to dynamodbattribute.
BackendErrText == "RequestError: send request failed"

\* The table: PutItem writes the item under its key, unconditionally;
\* GetItem returns the item of a key or no item; DeleteItem removes the item
\* of a key and succeeds whether or not there was one.
PutItem(table, item) == MapPut(table, item.id.S, item)
DeleteItem(table, key) == MapDelete(table, key)

\* dynamoDBUserRepository, on the table; fault names the call that fails
\* during this operation, "none" when none does.
DynCreateUser(table, user, fault) ==
    IF fault = "MarshalMap"
    THEN [user |-> ZeroUser, err |-> "failed to marshal user: " \o BackendErrText, table |-> table]
    ELSE IF fault = "PutItem"
    THEN [user |-> ZeroUser, err |-> "failed to put item to DynamoDB: " \o BackendErrText,
          table |-> table]
    ELSE [user |-> user, err |-> "", table |-> PutItem(table, MarshalMap(user))]

DynGetUserByID(table, id, fault) ==
    IF fault = "GetItem"
    THEN [user |-> ZeroUser, err |-> "failed to get item from DynamoDB: " \o BackendErrText]
    ELSE IF id \notin DOMAIN table
    THEN [user |-> ZeroUser, err |-> "user not found"]
    ELSE IF fault = "UnmarshalMap"
    THEN [user |-> ZeroUser, err |-> "failed to unmarshal item: " \o BackendErrText]
    ELSE [user |-> UnmarshalMap(table[id]), err |-> ""]

DynGetAllUsers(table, order, fault) ==
    IF fault \in {"Scan", "UnmarshalListOfMaps"} THEN <<>>
    ELSE InOrder(order, [k \in DOMAIN table |-> UnmarshalMap(table[k])])

DynUpdateUser(table, user, fault) ==
    IF fault = "MarshalMap"
    THEN [user |-> ZeroUser, err |-> "failed to marshal user: " \o BackendErrText, table |-> table]
    ELSE IF fault = "PutItem"
    THEN [user |-> ZeroUser, err |-> "failed to update item in DynamoDB: " \o BackendErrText,
          table |-> table]
    ELSE [user |-> user, err |-> "", table |-> PutItem(table, MarshalMap(user))]

DynDeleteUser(table, id, fault) ==
    IF fault = "DeleteItem"
    THEN [err |-> "failed to delete item from DynamoDB: " \o BackendErrText, table |-> table]
    ELSE [err |-> "", table |-> DeleteItem(table, id)]

\* The UserRepository interface: repo is the repository the handler holds,
\* [backend, users, table]; each operation returns its results and the
\* repository after it.
GetUserByID(repo, id, fault) ==
    IF repo.backend = "memory" THEN InMemGetUserByID(repo.users, id)
    ELSE DynGetUserByID(repo.table, id, fault)

GetAllUsers(repo, order, fault) ==
    IF repo.backend = "memory" THEN InMemGetAllUsers(repo.users, order)
    ELSE DynGetAllUsers(repo.table, order, fault)

CreateUser(repo, user, fault) ==
    IF repo.backend = "memory"
    THEN LET r == InMemCreateUser(repo.users, user)
         IN  [user |-> r.user, err |-> r.err, repo |-> [repo EXCEPT !.users = r.users]]
    ELSE LET r == DynCreateUser(repo.table, user, fault)
         IN  [user |-> r.user, err |-> r.err, repo |-> [repo EXCEPT !.table = r.table]]

UpdateUser(repo, user, fault) ==
    IF repo.backend = "memory"
    THEN LET r == InMemUpdateUser(repo.users, user)
         IN  [user |-> r.user, err |-> r.err, repo |-> [repo EXCEPT !.users = r.users]]
    ELSE LET r == DynUpdateUser(repo.table, user, fault)
         IN  [user |-> r.user, err |-> r.err, repo |-> [repo EXCEPT !.table = r.table]]

DeleteUser(repo, id, fault) ==
    IF repo.backend = "memory"
    THEN LET r == InMemDeleteUser(repo.users, id)
         IN  [err |-> r.err, repo |-> [repo EXCEPT !.users = r.users]]
    ELSE LET r == DynDeleteUser(repo.table, id, fault)
         IN  [err |-> r.err, repo |-> [repo EXCEPT !.table = r.table]]

\* --------------------------------------------------------------- handlers
\* What one handler invocation leaves behind: the response and error it
\* returns, the repository after it, and the repository calls it made
\* (op, the user or id passed, the error returned).
Outcome(r, repo, calls) ==
    [response |-> r.response, err |-> r.err, repo |-> repo, calls |-> calls, panic |-> FALSE]
Call(op, user, err, out) == [op |-> op, user |-> user, err |-> err, out |-> out]
WithID(id) == [ZeroUser EXCEPT !.ID = id]

\* env: what the invocation draws from outside the request and repository:
\*   uuid, now: the results of uuid.New() and time.Now();
\*   db: the backend call that fails ("none": none does);
\*   json: how many of the invocation's calls of jsonMarshal fail, first ones first;
\*   order: the order in which the stored users are visited.
GetHealthHandler(request, env) ==
    APIResponse(StatusOK, MessageBody("Health Check OK"), env.json >= 1)

CreateUserHandler(request, repo, env) ==
    LET u == JSONUnmarshal(request.Body)
        v == Validate(u.req, FALSE)
        newUser == [ID |-> env.uuid, Name |-> u.req.Name, Email |-> u.req.Email,
                    CreatedAt |-> env.now]
        c == CreateUser(repo, newUser, env.db)
    IN  IF u.err # "" THEN Outcome(ErrorResponse(StatusBadRequest, u.err, env.json >= 1), repo, <<>>)
        ELSE IF v # "" THEN Outcome(ErrorResponse(StatusBadRequest, v, env.json >= 1), repo, <<>>)
        ELSE IF c.err # ""
        THEN Outcome(ErrorResponse(StatusInternalServerError, c.err, env.json >= 1), c.repo,
                     <<Call("CreateUser", newUser, c.err, <<c.user>>)>>)
        ELSE Outcome(APIResponse(StatusCreated, UserBody(c.user), env.json >= 1), c.repo,
                     <<Call("CreateUser", newUser, c.err, <<c.user>>)>>)

GetUserHandler(request, repo, env) ==
    LET userID == request.PathParameters.id
        g == GetUserByID(repo, userID, env.db)
    IN  IF userID = ""
        THEN Outcome(ErrorResponse(StatusBadRequest, "user ID is required", env.json >= 1), repo, <<>>)
        ELSE IF g.err # ""
        THEN Outcome(ErrorResponse(StatusNotFound, g.err, env.json >= 1), repo,
                     <<Call("GetUserByID", WithID(userID), g.err, <<g.user>>)>>)
        ELSE Outcome(APIResponse(StatusOK, UserBody(g.user), env.json >= 1), repo,
                     <<Call("GetUserByID", WithID(userID), g.err, <<g.user>>)>>)

GetAllUsersHandler(request, repo, env) ==
    Outcome(APIResponse(StatusOK, ListBody(GetAllUsers(repo, env.order, env.db)), env.json >= 1),
            repo, <<Call("GetAllUsers", ZeroUser, "", GetAllUsers(repo, env.order, env.db))>>)

\* An UpdateUserHandler that stamps the record it writes with time.Now().
UpdateUserHandler_Restamp(request, repo, env) ==
    LET userID == request.PathParameters.id
        u == JSONUnmarshal(request.Body)
        v == Validate(u.req, TRUE)
        g == GetUserByID(repo, userID, env.db)
        named == IF u.req.Name # "" THEN [g.user EXCEPT !.Name = u.req.Name] ELSE g.user
        mailed == IF u.req.Email # "" THEN [named EXCEPT !.Email = u.req.Email] ELSE named
        existingUser == [mailed EXCEPT !.CreatedAt = env.now]
        w == UpdateUser(repo, existingUser, env.db)
        get == Call("GetUserByID", WithID(userID), g.err, <<g.user>>)
    IN  IF userID = ""
        THEN Outcome(ErrorResponse(StatusBadRequest, "user ID is required", env.json >= 1), repo, <<>>)
        ELSE IF u.err # "" THEN Outcome(ErrorResponse(StatusBadRequest, u.err, env.json >= 1), repo, <<>>)
        ELSE IF v # "" THEN Outcome(ErrorResponse(StatusBadRequest, v, env.json >= 1), repo, <<>>)
        ELSE IF g.err # ""
        THEN Outcome(ErrorResponse(StatusNotFound, g.err, env.json >= 1), repo, <<get>>)
        ELSE IF w.err # ""
        THEN Outcome(ErrorResponse(StatusInternalServerError, w.err, env.json >= 1), w.repo,
                     <<get, Call("UpdateUser", existingUser, w.err, <<w.user>>)>>)
        ELSE Outcome(APIResponse(StatusOK, UserBody(w.user), env.json >= 1), w.repo,
                     <<get, Call("UpdateUser", existingUser, w.err, <<w.user>>)>>)

\* An UpdateUserHandler that copies both members of the request, empty or not.
UpdateUserHandler_FullReplace(request, repo, env) ==
    LET userID == request.PathParameters.id
        u == JSONUnmarshal(request.Body)
        v == Validate(u.req, TRUE)
        g == GetUserByID(repo, userID, env.db)
        named == [g.user EXCEPT !.Name = u.req.Name]
        existingUser == [named EXCEPT !.Email = u.req.Email]
        w == UpdateUser(repo, existingUser, env.db)
        get == Call("GetUserByID", WithID(userID), g.err, <<g.user>>)
    IN  IF userID = ""
        THEN Outcome(ErrorResponse(StatusBadRequest, "user ID is required", env.json >= 1), repo, <<>>)
        ELSE IF u.err # "" THEN Outcome(ErrorResponse(StatusBadRequest, u.err, env.json >= 1), repo, <<>>)
        ELSE IF v # "" THEN Outcome(ErrorResponse(StatusBadRequest, v, env.json >= 1), repo, <<>>)
        ELSE IF g.err # ""
        THEN Outcome(ErrorResponse(StatusNotFound, g.err, env.json >= 1), repo, <<get>>)
        ELSE IF w.err # ""
        THEN Outcome(ErrorResponse(StatusInternalServerError, w.err, env.json >= 1), w.repo,
                     <<get, Call("UpdateUser", existingUser, w.err, <<w.user>>)>>)
        ELSE Outcome(APIResponse(StatusOK, UserBody(w.user), env.json >= 1), w.repo,
                     <<get, Call("UpdateUser", existingUser, w.err, <<w.user>>)>>)

UpdateUserHandler(request, repo, env) ==
    LET userID == request.PathParameters.id
        u == JSONUnmarshal(request.Body)
        v == Validate(u.req, TRUE)
        g == GetUserByID(repo, userID, env.db)
        named == IF u.req.Name # "" THEN [g.user EXCEPT !.Name = u.req.Name] ELSE g.user
        existingUser == IF u.req.Email # "" THEN [named EXCEPT !.Email = u.req.Email] ELSE named
        w == UpdateUser(repo, existingUser, env.db)
        get == Call("GetUserByID", WithID(userID), g.err, <<g.user>>)
    IN  IF userID = ""
        THEN Outcome(ErrorResponse(StatusBadRequest, "user ID is required", env.json >= 1), repo, <<>>)
        ELSE IF u.err # "" THEN Outcome(ErrorResponse(StatusBadRequest, u.err, env.json >= 1), repo, <<>>)
        ELSE IF v # "" THEN Outcome(ErrorResponse(StatusBadRequest, v, env.json >= 1), repo, <<>>)
        ELSE IF g.err # ""
        THEN Outcome(ErrorResponse(StatusNotFound, g.err, env.json >= 1), repo, <<get>>)
        ELSE IF w.err # ""
        THEN Outcome(ErrorResponse(StatusInternalServerError, w.err, env.json >= 1), w.repo,
                     <<get, Call("UpdateUser", existingUser, w.err, <<w.user>>)>>)
        ELSE Outcome(APIResponse(StatusOK, UserBody(w.user), env.json >= 1), w.repo,
                     <<get, Call("UpdateUser", existingUser, w.err, <<w.user>>)>>)

\* UpdateUserHandler up to its write: the checks, the read of the stored
\* user and the members of the request copied into it.  returned: the
\* handler has returned, with outcome; otherwise existingUser is the user it
\* goes on to write.
UpdateUserHandlerRead(request, repo, env) ==
    LET userID == request.PathParameters.id
        u == JSONUnmarshal(request.Body)
        v == Validate(u.req, TRUE)
        g == GetUserByID(repo, userID, env.db)
        named == IF u.req.Name # "" THEN [g.user EXCEPT !.Name = u.req.Name] ELSE g.user
        existingUser == IF u.req.Email # "" THEN [named EXCEPT !.Email = u.req.Email] ELSE named
        get == Call("GetUserByID", WithID(userID), g.err, <<g.user>>)
        Returns(o) == [returned |-> TRUE, outcome |-> o, existingUser |-> ZeroUser]
    IN  IF userID = ""
        THEN Returns(Outcome(ErrorResponse(StatusBadRequest, "user ID is required", env.json >= 1),
                             repo, <<>>))
        ELSE IF u.err # ""
        THEN Returns(Outcome(ErrorResponse(StatusBadRequest, u.err, env.json >= 1), repo, <<>>))
        ELSE IF v # ""
        THEN Returns(Outcome(ErrorResponse(StatusBadRequest, v, env.json >= 1), repo, <<>>))
        ELSE IF g.err # ""
        THEN Returns(Outcome(ErrorResponse(StatusNotFound, g.err, env.json >= 1), repo, <<get>>))
        ELSE [returned |-> FALSE,
              outcome |-> Outcome([response |-> ZeroResponse, err |-> ""], repo, <<get>>),
              existingUser |-> existingUser]

\* UpdateUserHandler from its write on.
UpdateUserHandlerWrite(existingUser, repo, env) ==
    LET w == UpdateUser(repo, existingUser, env.db)
    IN  IF w.err # ""
        THEN Outcome(ErrorResponse(StatusInternalServerError, w.err, env.json >= 1), w.repo,
                     <<Call("UpdateUser", existingUser, w.err, <<w.user>>)>>)
        ELSE Outcome(APIResponse(StatusOK, UserBody(w.user), env.json >= 1), w.repo,
                     <<Call("UpdateUser", existingUser, w.err, <<w.user>>)>>)

DeleteUserHandler(request, repo, env) ==
    LET userID == request.PathParameters.id
        d == DeleteUser(repo, userID, env.db)
        del == <<Call("DeleteUser", WithID(userID), d.err, <<>>)>>
    IN  IF userID = ""
        THEN Outcome(ErrorResponse(StatusBadRequest, "user ID is required", env.json >= 1), repo, <<>>)
        ELSE IF d.err # ""
        THEN IF d.err = "user not found"
             THEN Outcome(ErrorResponse(StatusNotFound, d.err, env.json >= 1), d.repo, del)
             ELSE Outcome(ErrorResponse(StatusInternalServerError, d.err, env.json >= 1), d.repo, del)
        ELSE Outcome(APIResponse(StatusNoContent, NilBody, env.json >= 1), d.repo, del)

\* ----------------------------------------------------------------- Router
CommonHeaderKeys ==
    {"Content-Type", "Access-Control-Allow-Origin", "Access-Control-Allow-Methods",
     "Access-Control-Allow-Headers", "Access-Control-Allow-Credentials"}

commonHeaders ==
    MakeMap([k \in CommonHeaderKeys |->
        CASE k = "Content-Type" -> "application/json"
          [] k = "Access-Control-Allow-Origin" -> "*"
          [] k = "Access-Control-Allow-Methods" -> "GET,POST,PUT,DELETE,OPTIONS"
          [] k = "Access-Control-Allow-Headers" ->
                "Content-Type,Authorization,X-Amz-Date,X-Api-Key,X-Amz-Security-Token"
          [] k = "Access-Control-Allow-Credentials" -> "true"])

handleRootGet(request, repo, env) ==
    Outcome(APIResponse(StatusOK, MessageBody("Welcome to the Go Lambda API"), env.json >= 1),
            repo, <<>>)

\* A switch whose health route does not look at the method.
RouteSwitch_HealthAnyMethod(request, repo, env) ==
    CASE request.Path = RootPath /\ request.HTTPMethod = MethodGet ->
            handleRootGet(request, repo, env)
      [] request.Path = HealthPath ->
            Outcome(GetHealthHandler(request, env), repo, <<>>)
      [] request.Path = UsersPath /\ request.HTTPMethod = MethodPost ->
            CreateUserHandler(request, repo, env)
      [] request.Path = UsersIDPath /\ request.HTTPMethod = MethodGet ->
            GetUserHandler(request, repo, env)
      [] request.Path = UsersPath /\ request.HTTPMethod = MethodGet ->
            GetAllUsersHandler(request, repo, env)
      [] request.Path = UsersIDPath /\ request.HTTPMethod = MethodPut ->
            UpdateUserHandler(request, repo, env)
      [] request.Path = UsersIDPath /\ request.HTTPMethod = MethodDelete ->
            DeleteUserHandler(request, repo, env)
      [] OTHER ->
            Outcome(ErrorResponse(StatusNotFound, "not found", env.json >= 1), repo, <<>>)

\* The switch of Router: the outcome of the first case whose condition holds.
RouteSwitch(request, repo, env) ==
    CASE request.Path = RootPath /\ request.HTTPMethod = MethodGet ->
            handleRootGet(request, repo, env)
      [] request.Path = HealthPath /\ request.HTTPMethod = MethodGet ->
            Outcome(GetHealthHandler(request, env), repo, <<>>)
      [] request.Path = UsersPath /\ request.HTTPMethod = MethodPost ->
            CreateUserHandler(request, repo, env)
      [] request.Path = UsersIDPath /\ request.HTTPMethod = MethodGet ->
            GetUserHandler(request, repo, env)
      [] request.Path = UsersPath /\ request.HTTPMethod = MethodGet ->
            GetAllUsersHandler(request, repo, env)
      [] request.Path = UsersIDPath /\ request.HTTPMethod = MethodPut ->
            UpdateUserHandler(request, repo, env)
      [] request.Path = UsersIDPath /\ request.HTTPMethod = MethodDelete ->
            DeleteUserHandler(request, repo, env)
      [] OTHER ->
            Outcome(ErrorResponse(StatusNotFound, "not found", env.json >= 1), repo, <<>>)

\* for k, v := range commonHeaders { headers[k] = v }
OverwriteWithCommon(headers) ==
    MakeMap([k \in (DOMAIN headers.kv) \cup CommonHeaderKeys |->
                IF k \in CommonHeaderKeys THEN commonHeaders.kv[k] ELSE headers.kv[k]])

\* A merge in which the common value replaces the one the handler set.
MergeCommon_CommonWins(headers) ==
    MakeMap([k \in (DOMAIN headers.kv) \cup CommonHeaderKeys |->
                IF k \in CommonHeaderKeys THEN commonHeaders.kv[k] ELSE headers.kv[k]])

\* for k, v := range commonHeaders { if _, ok := headers[k]; !ok { headers[k] = v } }
MergeCommon(headers) ==
    MakeMap([k \in (DOMAIN headers.kv) \cup CommonHeaderKeys |->
                IF k \in DOMAIN headers.kv THEN headers.kv[k] ELSE commonHeaders.kv[k]])

\* The status Router gives the response it builds from a handler's error.
ErrorStatus(response) ==
    IF response.StatusCode # 0 /\ response.StatusCode # StatusOK
    THEN response.StatusCode
    ELSE StatusInternalServerError

\* The part of Router after the switch (from "if err != nil"), h being what
\* the handler returned.  panic: the invocation ends in a run-time panic
\* (a write to a nil map) instead of returning.
RouterReturn(h, e) ==
    IF h.err # ""
    THEN IF e.response.Headers.isNil
         THEN [h EXCEPT !.response = ZeroResponse, !.err = "", !.panic = TRUE]
         ELSE [h EXCEPT !.response =
                    [e.response EXCEPT !.Headers = OverwriteWithCommon(e.response.Headers)],
                 !.err = ""]
    ELSE [h EXCEPT !.response.Headers =
                MergeCommon(IF h.response.Headers.isNil THEN MakeMap(EmptyKV)
                            ELSE h.response.Headers)]

RouterError(h, env) ==
    RouterReturn(h, ErrorResponse(ErrorStatus(h.response), h.err, env.json >= 2))

\* A Router that sends pre-flight requests through the switch.
Router_NoPreflight(request, repo, env) ==
    RouterError(RouteSwitch(request, repo, env), env)

\* Router(ctx, request, userRepo, healthHandler).
Router(request, repo, env) ==
    IF request.HTTPMethod = MethodOptions
    THEN Outcome([response |-> Response(StatusOK, commonHeaders, ""), err |-> ""], repo, <<>>)
    ELSE RouterError(RouteSwitch(request, repo, env), env)

\* ------------------------------------------------------------ server mode
\* The routes startLocalServer registers on its http.ServeMux.
ServeMuxPatterns ==
    {<<MethodGet, HealthPath>>, <<MethodPost, UsersPath>>, <<MethodGet, UsersIDPath>>,
     <<MethodGet, UsersPath>>, <<MethodPut, UsersIDPath>>, <<MethodDelete, UsersIDPath>>}

\* The values a path segment takes in the requests of the model.
Segments == UUIDs \cup {"{id}"}
\* URL paths of HTTP requests.
URLPaths == {RootPath, HealthPath, UsersPath, "/orders"} \cup {UsersPath \o "/" \o s : s \in Segments}

\* r.PathValue("id") for a request matched against the pattern /users/{id}:
\* the one segment below /users, "" when the path has another form.
PathValue(path) ==
    IF \E s \in Segments : path = UsersPath \o "/" \o s
    THEN CHOOSE s \in Segments : path = UsersPath \o "/" \o s
    ELSE ""

\* The path of a registered pattern matches the URL path: literally, or, for
\* the pattern with the wildcard {id}, with one segment in its place.
PatternMatches(patternPath, path) ==
    IF patternPath = UsersIDPath THEN PathValue(path) # "" ELSE path = patternPath

\* The methods registered for the patterns that match the path.
MethodsFor(path) == {p[1] : p \in {q \in ServeMuxPatterns : PatternMatches(q[2], path)}}
\* The path of the pattern a request is dispatched to.
PatternFor(path) == CHOOSE pp \in {q[2] : q \in ServeMuxPatterns} : PatternMatches(pp, path)

\* http.Error(w, text, code): a plain-text reply.
PlainTextHeaders ==
    [k \in {"Content-Type", "X-Content-Type-Options"} |->
        IF k = "Content-Type" THEN "text/plain; charset=utf-8" ELSE "nosniff"]
HTTPError(text, code) == Response(code, MakeMap(PlainTextHeaders), text \o "\n")

\* The Allow header ServeMux sends with 405: the registered methods of the
\* path in alphabetical order, HEAD going with GET.
AllowHeader(path) ==
    CASE MethodsFor(path) = {MethodGet} -> "GET, HEAD"
      [] MethodsFor(path) = {MethodGet, MethodPost} -> "GET, HEAD, POST"
      [] MethodsFor(path) = {MethodGet, MethodPut, MethodDelete} -> "DELETE, GET, HEAD, PUT"

\* The request body as adapt hands it to the handler: apiReq.Body is never
\* assigned, so it is the empty string, which json.Unmarshal rejects.
NoBody == MalformedBody

\* The handler function registered for a pattern, applied to apiReq.
RegisteredHandler(method, patternPath, apiReq, repo, env) ==
    CASE patternPath = HealthPath /\ method = MethodGet ->
            Outcome(GetHealthHandler(apiReq, env), repo, <<>>)
      [] patternPath = UsersPath /\ method = MethodPost -> CreateUserHandler(apiReq, repo, env)
      [] patternPath = UsersIDPath /\ method = MethodGet -> GetUserHandler(apiReq, repo, env)
      [] patternPath = UsersPath /\ method = MethodGet -> GetAllUsersHandler(apiReq, repo, env)
      [] patternPath = UsersIDPath /\ method = MethodPut -> UpdateUserHandler(apiReq, repo, env)
      [] patternPath = UsersIDPath /\ method = MethodDelete -> DeleteUserHandler(apiReq, repo, env)

\* What adapt writes to the http.ResponseWriter for what the handler returned.
AdaptWrite(h) ==
    IF h.err # ""
    THEN [h EXCEPT !.response = HTTPError(h.err, StatusInternalServerError), !.err = ""]
    ELSE [h EXCEPT !.response.Headers = MakeMap(h.response.Headers.kv)]

\* adapt(handler)(w, r): the gateway request built from the HTTP request,
\* the handler's run on it, the reply written.
adapt(method, patternPath, r, repo, env) ==
    AdaptWrite(RegisteredHandler(method, patternPath,
        [HTTPMethod |-> r.HTTPMethod, Path |-> r.Path,
         PathParameters |-> [id |-> PathValue(r.Path)], Body |-> NoBody],
        repo, env))

\* server.Handler.ServeHTTP: the ServeMux dispatches on method and path; a
\* path registered for other methods only is answered 405, any other 404.
ServeHTTP(r, repo, env) ==
    IF r.HTTPMethod \in MethodsFor(r.Path)
    THEN adapt(r.HTTPMethod, PatternFor(r.Path), r, repo, env)
    ELSE IF MethodsFor(r.Path) # {}
    THEN Outcome([response |->
                    [HTTPError("Method Not Allowed", StatusMethodNotAllowed)
                        EXCEPT !.Headers = MapSet(@, "Allow", AllowHeader(r.Path))],
                  err |-> ""], repo, <<>>)
    ELSE Outcome([response |-> HTTPError("404 page not found", StatusNotFound), err |-> ""],
                 repo, <<>>)

\* ------------------------------------------------------- the state machine
VARIABLES
    backend,    \* the repository Router is given: "memory" or "dynamodb"
    users,      \* inMemoryUserRepository.users
    table,      \* the items of the DynamoDB table
    nextUUID,   \* how many identifiers uuid.New() has handed out, plus one
    pc,         \* "idle", "pending" (an event is delivered), "done" (Router has returned)
    req,        \* the event being served
    resp,       \* the response Router returned
    err,        \* the error Router returned ("" is nil)
    panicked,   \* Router ended in a panic
    calls,      \* the repository calls made while serving req
    env,        \* what the invocation drew from its environment
    created,    \* history: ids of the users CreateUser stored, in order
    deleted,    \* history: ids of the users DeleteUser removed
    latest,     \* history: per id, the user of the latest CreateUser/UpdateUser without error
    main,       \* server mode: where the main goroutine of startLocalServer is
    stop,       \* server mode: signals buffered in the channel stop
    listener,   \* server mode: the listening socket, "open" or "closed"
    conns,      \* server mode: per connection, its state
    elapsed,    \* server mode: seconds since the shutdown context was made
    inflight,   \* history: the connections serving a request when Shutdown was called
    procs       \* concurrent handlers: per goroutine, the request it serves and how far it is

routerVars == <<backend, users, table, nextUUID, pc, req, resp, err, panicked, calls, env,
                created, deleted, latest>>
serverVars == <<main, stop, listener, conns, elapsed, inflight>>
vars == <<routerVars, serverVars, procs>>

\* Bounds of the server-mode and concurrent specifications.
MaxConns == 2         \* how many connections a run of the local server sees
MaxProcs == 2          \* how many handlers run at the same time

Conns == 1..MaxConns
Procs == 1..MaxProcs

NoRequest == [HTTPMethod |-> "", Path |-> "", PathParameters |-> [id |-> ""], Body |-> MalformedBody]
DefaultOrder == [i \in 1..MaxUsers |-> UUIDOf(i)]
Orders == {o \in [1..MaxUsers -> UUIDs] : \A i, j \in 1..MaxUsers : i # j => o[i] # o[j]}
NoEnv == [uuid |-> "", now |-> 0, db |-> "none", json |-> 0, order |-> DefaultOrder]

\* No local server: the process runs lambda.Start.
NoServer ==
    /\ main = "lambda"
    /\ stop = 0
    /\ listener = "closed"
    /\ conns = [c \in Conns |-> "free"]
    /\ elapsed = 0
    /\ inflight = {}

\* A goroutine that serves no request.
IdleProc == [pc |-> "idle", req |-> NoRequest, existingUser |-> ZeroUser, resp |-> ZeroResponse]

\* The backend calls a request can reach.
DBFaultsFor(request) ==
    CASE request.Path = UsersPath /\ request.HTTPMethod = MethodPost -> {"MarshalMap", "PutItem"}
      [] request.Path = UsersIDPath /\ request.HTTPMethod = MethodGet -> {"GetItem", "UnmarshalMap"}
      [] request.Path = UsersPath /\ request.HTTPMethod = MethodGet -> {"Scan", "UnmarshalListOfMaps"}
      [] request.Path = UsersIDPath /\ request.HTTPMethod = MethodPut ->
            {"GetItem", "UnmarshalMap", "MarshalMap", "PutItem"}
      [] request.Path = UsersIDPath /\ request.HTTPMethod = MethodDelete -> {"DeleteItem"}
      [] OTHER -> {}

\* The request is for the list route.
IsListRoute(request) == request.Path = UsersPath /\ request.HTTPMethod = MethodGet

\* How many calls of jsonMarshal serving a request can make: one by the
\* handler, and one more by Router when the handler's call failed on a body.
JSONCallsFor(request) ==
    IF request.HTTPMethod = MethodOptions THEN 0
    ELSE IF request.HTTPMethod = MethodGet /\ request.Path \in {RootPath, HealthPath, UsersPath, UsersIDPath}
    THEN 2
    ELSE IF request.HTTPMethod = MethodPost /\ request.Path = UsersPath THEN 2
    ELSE IF request.HTTPMethod = MethodPut /\ request.Path = UsersIDPath THEN 2
    ELSE 1

\* The n-th identifier comes with the n-th reading of the clock.
Envs(request) ==
    [uuid : {UUIDOf(nextUUID)}, now : {nextUUID},
     db : {"none"} \cup (IF backend = "dynamodb" THEN DBFaultsFor(request) ELSE {}),
     json : 0..JSONCallsFor(request),
     order : IF request.Path = UsersPath /\ request.HTTPMethod = MethodGet
             THEN Orders ELSE {DefaultOrder}]

\* models.NewInMemoryUserRepository() in cmd/lambda, or
\* models.NewDynamoDBUserRepository(...) in internal/app: chosen once.
Init ==
    /\ backend \in {"memory", "dynamodb"}
    /\ users = [k \in {} |-> ZeroUser]
    /\ table = [k \in {} |-> MarshalMap(ZeroUser)]
    /\ nextUUID = 1
    /\ pc = "idle"
    /\ req = NoRequest
    /\ resp = ZeroResponse
    /\ err = ""
    /\ panicked = FALSE
    /\ calls = <<>>
    /\ env = NoEnv
    /\ created = <<>>
    /\ deleted = {}
    /\ latest = [k \in {} |-> ZeroUser]
    /\ NoServer
    /\ procs = [p \in Procs |-> IdleProc]

\* The host delivers an event.  uuid.New() has MaxUsers identifiers to give.
Receive ==
    /\ pc = "idle"
    /\ \E r \in Requests :
        /\ (r.Path = UsersPath /\ r.HTTPMethod = MethodPost) => nextUUID <= MaxUsers
        /\ req' = r
    /\ pc' = "pending"
    /\ UNCHANGED <<backend, users, table, nextUUID, resp, err, panicked, calls, env,
                   created, deleted, latest>>
    /\ UNCHANGED <<serverVars, procs>>

\* The repository calls of one invocation, and those that returned no error.
CallsOf(cs, ops) == {c \in {cs[i] : i \in 1..Len(cs)} : c.op \in ops}
Succeeded(cs, ops) == {c \in CallsOf(cs, ops) : c.err = ""}

\* The ids under which the repository in use holds a user.
StoredIDs == IF backend = "memory" THEN DOMAIN users ELSE DOMAIN table

\* The state after an invocation with outcome o under env e.
Commit(o, e, cr, st, rm) ==
    /\ users' = o.repo.users
    /\ table' = o.repo.table
    /\ resp' = o.response
    /\ err' = o.err
    /\ panicked' = o.panic
    /\ calls' = o.calls
    /\ env' = e
    /\ nextUUID' = IF CallsOf(o.calls, {"CreateUser"}) # {} THEN nextUUID + 1 ELSE nextUUID
    /\ created' = IF cr # {} THEN Append(created, (CHOOSE c \in cr : TRUE).user.ID)
                  ELSE created
    /\ deleted' = deleted \cup {c.user.ID : c \in {d \in rm : d.user.ID \in StoredIDs}}
    /\ latest' = IF st # {}
                 THEN MapPut(latest, (CHOOSE c \in st : TRUE).user.ID, (CHOOSE c \in st : TRUE).user)
                 ELSE IF rm # {}
                 THEN MapDelete(latest, (CHOOSE c \in rm : TRUE).user.ID)
                 ELSE latest

Served(o, e) ==
    Commit(o, e, Succeeded(o.calls, {"CreateUser"}),
           Succeeded(o.calls, {"CreateUser", "UpdateUser"}), Succeeded(o.calls, {"DeleteUser"}))

\* Router serves the event.
Handle ==
    /\ pc = "pending"
    /\ \E e \in Envs(req) :
        Served(Router(req, [backend |-> backend, users |-> users, table |-> table], e), e)
    /\ pc' = "done"
    /\ UNCHANGED <<backend, req>>
    /\ UNCHANGED <<serverVars, procs>>

\* The response is handed back to the host.
Respond ==
    /\ pc = "done"
    /\ pc' = "idle"
    /\ req' = NoRequest
    /\ resp' = ZeroResponse
    /\ err' = ""
    /\ panicked' = FALSE
    /\ calls' = <<>>
    /\ env' = NoEnv
    /\ UNCHANGED <<backend, users, table, nextUUID, created, deleted, latest>>
    /\ UNCHANGED <<serverVars, procs>>

Next == Receive \/ Handle \/ Respond

Spec == Init /\ [][Next]_vars

\* ------------------------------------------------- server mode, one request
\* HTTP requests: a method, a URL path and a body; HTTP carries no path
\* parameters.
HTTPRequests ==
    [HTTPMethod : Methods, Path : URLPaths, PathParameters : [id : {""}], Body : PlainBodies]

\* The table outlives the process: the local server finds in it the users
\* that earlier creates stored.
SeedUser(id) == [ID |-> id, Name |-> "Alice", Email |-> "a@x", CreatedAt |-> 1]
Tables == {[id \in {UUIDOf(i) : i \in 1..n} |-> MarshalMap(SeedUser(id))] : n \in 0..MaxUsers}

\* The pattern a request is dispatched to, as the route it has in Router's
\* terms; a request no handler is registered for has none.
Dispatched(r) ==
    IF r.HTTPMethod \in MethodsFor(r.Path) THEN [r EXCEPT !.Path = PatternFor(r.Path)] ELSE r

\* What an invocation of a registered handler draws from its environment:
\* the handler calls jsonMarshal once.
ServerEnvs(r) ==
    [uuid : {UUIDOf(nextUUID)}, now : {nextUUID},
     db : {"none"} \cup (IF r.HTTPMethod \in MethodsFor(r.Path) THEN DBFaultsFor(Dispatched(r)) ELSE {}),
     json : IF r.HTTPMethod \in MethodsFor(r.Path) THEN 0..1 ELSE {0},
     order : IF IsListRoute(Dispatched(r)) THEN Orders ELSE {DefaultOrder}]

\* startLocalServer: the DynamoDB repository behind an http.Server that
\* listens.
ServerInit ==
    /\ backend = "dynamodb"
    /\ users = [k \in {} |-> ZeroUser]
    /\ table \in Tables
    /\ nextUUID = 1
    /\ pc = "idle"
    /\ req = NoRequest
    /\ resp = ZeroResponse
    /\ err = ""
    /\ panicked = FALSE
    /\ calls = <<>>
    /\ env = NoEnv
    /\ created = <<>>
    /\ deleted = {}
    /\ latest = [k \in {} |-> ZeroUser]
    /\ main = "waiting"
    /\ stop = 0
    /\ listener = "open"
    /\ conns = [c \in Conns |-> "free"]
    /\ elapsed = 0
    /\ inflight = {}
    /\ procs = [p \in Procs |-> IdleProc]

\* A client sends a request to the listener.
ServerReceive ==
    /\ pc = "idle"
    /\ req' \in HTTPRequests
    /\ pc' = "pending"
    /\ UNCHANGED <<backend, users, table, nextUUID, resp, err, panicked, calls, env,
                   created, deleted, latest>>
    /\ UNCHANGED <<serverVars, procs>>

\* The server's handler serves it and writes the reply.
ServerHandle ==
    /\ pc = "pending"
    /\ \E e \in ServerEnvs(req) :
        Served(ServeHTTP(req, [backend |-> backend, users |-> users, table |-> table], e), e)
    /\ pc' = "done"
    /\ UNCHANGED <<backend, req>>
    /\ UNCHANGED <<serverVars, procs>>

ServerNext == ServerReceive \/ ServerHandle \/ Respond

ServerSpec == ServerInit /\ [][ServerNext]_vars

\* ------------------------------------------------ server mode, shutdown
\* context.WithTimeout(context.Background(), 5*time.Second), in seconds.
ShutdownTimeout == 5

\* A connection is "free" (not made yet), "active" (a request is being
\* served on it), "idle" (kept alive between requests), "closed", or
\* "aborted" (cut while a request was being served on it).
\* The main goroutine is "waiting" (at <-stop), "draining" (in
\* server.Shutdown), "stopped" (startLocalServer has returned) or "fatal"
\* (log.Fatalf has ended the process).
ShutdownInit ==
    /\ backend = "dynamodb"
    /\ users = [k \in {} |-> ZeroUser]
    /\ table = [k \in {} |-> MarshalMap(ZeroUser)]
    /\ nextUUID = 1
    /\ pc = "idle"
    /\ req = NoRequest
    /\ resp = ZeroResponse
    /\ err = ""
    /\ panicked = FALSE
    /\ calls = <<>>
    /\ env = NoEnv
    /\ created = <<>>
    /\ deleted = {}
    /\ latest = [k \in {} |-> ZeroUser]
    /\ main = "waiting"
    /\ stop = 0
    /\ listener = "open"
    /\ conns = [c \in Conns |-> "free"]
    /\ elapsed = 0
    /\ inflight = {}
    /\ procs = [p \in Procs |-> IdleProc]

\* The process runs.
Alive == main \in {"waiting", "draining"}
\* The connections on which a request is being served.
Active == {c \in Conns : conns[c] = "active"}

\* ListenAndServe accepts a connection and the request on it is served in a
\* goroutine of its own.
Accept(c) ==
    /\ Alive
    /\ listener = "open"
    /\ conns[c] = "free"
    /\ conns' = [conns EXCEPT ![c] = "active"]
    /\ UNCHANGED <<main, stop, listener, elapsed, inflight, routerVars, procs>>

\* A further request arrives on a connection that was kept alive.
NextRequest(c) ==
    /\ Alive
    /\ conns[c] = "idle"
    /\ conns' = [conns EXCEPT ![c] = "active"]
    /\ UNCHANGED <<main, stop, listener, elapsed, inflight, routerVars, procs>>

\* The handler returns and the reply is written; a server that is shutting
\* down keeps no connection alive.
Finish(c) ==
    /\ Alive
    /\ conns[c] = "active"
    /\ conns' = [conns EXCEPT ![c] = IF main = "draining" THEN "closed" ELSE "idle"]
    /\ UNCHANGED <<main, stop, listener, elapsed, inflight, routerVars, procs>>

\* SIGINT or SIGTERM is delivered: signal.Notify puts it in the channel stop,
\* which holds one signal, and drops it when the channel is full.
Signal ==
    /\ Alive
    /\ stop = 0
    /\ stop' = 1
    /\ UNCHANGED <<main, listener, conns, elapsed, inflight, routerVars, procs>>

\* A Shutdown that leaves the listener open.
BeginShutdown_KeepsListening ==
    /\ main = "waiting"
    /\ stop = 1
    /\ stop' = 0
    /\ main' = "draining"
    /\ listener' = listener
    /\ conns' = [c \in Conns |-> IF conns[c] = "idle" THEN "closed" ELSE conns[c]]
    /\ elapsed' = 0
    /\ inflight' = Active
    /\ UNCHANGED <<routerVars, procs>>

\* The main goroutine receives from stop, makes the context and calls
\* server.Shutdown, which closes the listener and the idle connections.
BeginShutdown ==
    /\ main = "waiting"
    /\ stop = 1
    /\ stop' = 0
    /\ main' = "draining"
    /\ listener' = "closed"
    /\ conns' = [c \in Conns |-> IF conns[c] = "idle" THEN "closed" ELSE conns[c]]
    /\ elapsed' = 0
    /\ inflight' = Active
    /\ UNCHANGED <<routerVars, procs>>

\* A second of the grace period passes.
Tick ==
    /\ main = "draining"
    /\ elapsed < ShutdownTimeout
    /\ elapsed' = elapsed + 1
    /\ UNCHANGED <<main, stop, listener, conns, inflight, routerVars, procs>>

\* Shutdown finds no connection serving a request and returns nil;
\* startLocalServer returns and the process ends.
ShutdownReturn ==
    /\ main = "draining"
    /\ Active = {}
    /\ main' = "stopped"
    /\ UNCHANGED <<stop, listener, conns, elapsed, inflight, routerVars, procs>>

\* The context expires: Shutdown returns its error and log.Fatalf ends the
\* process, cutting the requests still being served.
ShutdownTimedOut ==
    /\ main = "draining"
    /\ elapsed = ShutdownTimeout
    /\ main' = "fatal"
    /\ conns' = [c \in Conns |-> IF conns[c] = "active" THEN "aborted" ELSE conns[c]]
    /\ UNCHANGED <<stop, listener, elapsed, inflight, routerVars, procs>>

ShutdownNext ==
    \/ \E c \in Conns : Accept(c)
    \/ \E c \in Conns : NextRequest(c)
    \/ \E c \in Conns : Finish(c)
    \/ Signal
    \/ BeginShutdown
    \/ Tick
    \/ ShutdownReturn
    \/ ShutdownTimedOut

\* The main goroutine runs when it can, and time passes.
ShutdownSpec ==
    /\ ShutdownInit
    /\ [][ShutdownNext]_vars
    /\ WF_vars(BeginShutdown)
    /\ WF_vars(Tick)
    /\ WF_vars(ShutdownReturn)
    /\ WF_vars(ShutdownTimedOut)

\* ---------------------------------------------------- concurrent handlers
\* Handlers run in goroutines of their own on one repository; a goroutine
\* is "idle", "started" (it holds a request), "read" (UpdateUserHandler has
\* read the stored user and not written yet) or "done" (the handler has
\* returned).  Each call of a repository method is one step.
ConcRequests ==
    [HTTPMethod : {MethodPost}, Path : {UsersPath}, PathParameters : [id : {""}],
     Body : {[wellformed |-> TRUE, id |-> "", name |-> "Alice", email |-> "a@x"]}]
    \cup
    [HTTPMethod : {MethodPut}, Path : {UsersIDPath}, PathParameters : [id : UUIDs],
     Body : {[wellformed |-> TRUE, id |-> "", name |-> "Bob", email |-> ""],
             [wellformed |-> TRUE, id |-> "", name |-> "", email |-> "b@x"]}]
    \cup
    [HTTPMethod : {MethodDelete}, Path : {UsersIDPath}, PathParameters : [id : UUIDs],
     Body : {MalformedBody}]

\* The environment of a handler when no call fails.
ConcEnv == [uuid |-> UUIDOf(nextUUID), now |-> nextUUID, db |-> "none", json |-> 0,
            order |-> DefaultOrder]

ConcInit ==
    /\ backend \in {"memory", "dynamodb"}
    /\ users = [k \in {} |-> ZeroUser]
    /\ table = [k \in {} |-> MarshalMap(ZeroUser)]
    /\ nextUUID = 1
    /\ pc = "idle"
    /\ req = NoRequest
    /\ resp = ZeroResponse
    /\ err = ""
    /\ panicked = FALSE
    /\ calls = <<>>
    /\ env = NoEnv
    /\ created = <<>>
    /\ deleted = {}
    /\ latest = [k \in {} |-> ZeroUser]
    /\ NoServer
    /\ procs = [p \in Procs |-> IdleProc]

\* The creates that have started and not called CreateUser yet.
StartedCreates ==
    {p \in Procs : procs[p].pc = "started"
                   /\ procs[p].req.HTTPMethod = MethodPost /\ procs[p].req.Path = UsersPath}

\* What a step of a handler leaves: the repository, and the goroutine's state.
ConcCommit(p, o, pr) ==
    /\ users' = o.repo.users
    /\ table' = o.repo.table
    /\ procs' = [procs EXCEPT ![p] = pr]
    /\ UNCHANGED <<backend, pc, req, resp, err, panicked, calls, env, created, deleted, latest,
                   serverVars>>

\* The handler of p has returned with outcome o.
ConcReturn(p, o) ==
    ConcCommit(p, o, [procs[p] EXCEPT !.pc = "done", !.resp = o.response])

\* A request is handed to a goroutine.
Begin(p) ==
    /\ procs[p].pc = "idle"
    /\ \E r \in ConcRequests :
        /\ (r.HTTPMethod = MethodPost) => nextUUID + Cardinality(StartedCreates) <= MaxUsers
        /\ procs' = [procs EXCEPT ![p] = [IdleProc EXCEPT !.pc = "started", !.req = r]]
    /\ UNCHANGED <<routerVars, serverVars>>

\* CreateUserHandler, which calls the repository once.
ConcCreate(p) ==
    /\ procs[p].pc = "started"
    /\ procs[p].req.HTTPMethod = MethodPost
    /\ ConcReturn(p, CreateUserHandler(procs[p].req,
                        [backend |-> backend, users |-> users, table |-> table], ConcEnv))
    /\ nextUUID' = nextUUID + 1

\* UpdateUserHandler up to and with GetUserByID.
ConcUpdateStep(p, r) ==
    IF r.returned THEN ConcReturn(p, r.outcome)
    ELSE ConcCommit(p, r.outcome, [procs[p] EXCEPT !.pc = "read", !.existingUser = r.existingUser])

UpdateRead(p) ==
    /\ procs[p].pc = "started"
    /\ procs[p].req.HTTPMethod = MethodPut
    /\ ConcUpdateStep(p, UpdateUserHandlerRead(procs[p].req,
                            [backend |-> backend, users |-> users, table |-> table], ConcEnv))
    /\ UNCHANGED nextUUID

\* UpdateUserHandler from UpdateUser on.
UpdateWrite(p) ==
    /\ procs[p].pc = "read"
    /\ ConcReturn(p, UpdateUserHandlerWrite(procs[p].existingUser,
                        [backend |-> backend, users |-> users, table |-> table], ConcEnv))
    /\ UNCHANGED nextUUID

\* DeleteUserHandler, which calls the repository once.
ConcDelete(p) ==
    /\ procs[p].pc = "started"
    /\ procs[p].req.HTTPMethod = MethodDelete
    /\ ConcReturn(p, DeleteUserHandler(procs[p].req,
                        [backend |-> backend, users |-> users, table |-> table], ConcEnv))
    /\ UNCHANGED nextUUID

\* The reply has been sent; the goroutine is free again.
End(p) ==
    /\ procs[p].pc = "done"
    /\ procs' = [procs EXCEPT ![p] = IdleProc]
    /\ UNCHANGED <<routerVars, serverVars>>

ConcNext ==
    \E p \in Procs :
        \/ Begin(p)
        \/ ConcCreate(p)
        \/ UpdateRead(p)
        \/ UpdateWrite(p)
        \/ ConcDelete(p)
        \/ End(p)

ConcSpec == ConcInit /\ [][ConcNext]_vars

\* ----------------------------------------------------------- properties
\* The repository Router is given, as a value.
Repo == [backend |-> backend, users |-> users, table |-> table]
\* The user the repository returns for id when no call fails.
UserAt(id) == GetUserByID(Repo, id, "none").user

IsCreate(r) == r.HTTPMethod = MethodPost /\ r.Path = UsersPath
IsList(r) == r.HTTPMethod = MethodGet /\ r.Path = UsersPath
IsGet(r) == r.HTTPMethod = MethodGet /\ r.Path = UsersIDPath
IsUpdate(r) == r.HTTPMethod = MethodPut /\ r.Path = UsersIDPath
IsDelete(r) == r.HTTPMethod = MethodDelete /\ r.Path = UsersIDPath
GetRequest(id) ==
    [HTTPMethod |-> MethodGet, Path |-> UsersIDPath, PathParameters |-> [id |-> id],
     Body |-> MalformedBody]
NotFoundBody == "{\"error\":\"not found\"}"
UserNotFoundBody == "{\"error\":\"user not found\"}"

\* C1: a request for /users/<id> with a concrete id and method GET, PUT or
\* DELETE, its path parameter id bound to <id>, reaches the user handler: it
\* is never answered by the unmatched-route 404 {"error":"not found"}, and
\* GET of a stored user returns 200 with that user.
C1_UserPathsAreRouted ==
    (/\ pc = "done"
     /\ req.HTTPMethod \in {MethodGet, MethodPut, MethodDelete}
     /\ req.PathParameters.id \in UUIDs
     /\ req.Path = UsersPath \o "/" \o req.PathParameters.id
     /\ env.db = "none" /\ env.json = 0)
    => /\ ~(resp.StatusCode = StatusNotFound /\ resp.Body = NotFoundBody)
       /\ (req.HTTPMethod = MethodGet /\ req.PathParameters.id \in StoredIDs)
            => (resp.StatusCode = StatusOK
                /\ resp.Body = JSONUser(UserAt(req.PathParameters.id)))

C3_DeleteTwice ==
    [][(/\ pc = "pending"
        /\ IsDelete(req)
        /\ req.PathParameters.id \in StoredIDs
        /\ env'.db = "none" /\ env'.json = 0)
       => /\ resp'.StatusCode = StatusNoContent
          /\ resp'.Body = ""
          /\ Router(req, Repo', NoEnv).response.StatusCode = StatusNotFound
          /\ Router(req, Repo', NoEnv).response.Body = UserNotFoundBody
      ]_vars

\* C4 as stated: an update whose body has name and email both empty yields
\* 400 {"error":"no fields to update"} and leaves the store as it was,
\* whether or not the id exists or is bound.
C4_EmptyPatchAnyID ==
    [][(/\ pc = "pending"
        /\ IsUpdate(req)
        /\ req.Body.wellformed /\ req.Body.name = "" /\ req.Body.email = ""
        /\ env'.json = 0)
       => /\ resp'.StatusCode = StatusBadRequest
          /\ resp'.Body = "{\"error\":\"no fields to update\"}"
          /\ users' = users /\ table' = table
      ]_vars

\* C4 amended: an update whose body has name and email both empty yields 400
\* and makes no repository call, so the store stays as it was; the body is
\* {"error":"no fields to update"} when the id path parameter is bound,
\* whether or not that id exists, and {"error":"user ID is required"} when it
\* is not bound.
C4_EmptyPatchBoundID ==
    [][(/\ pc = "pending"
        /\ IsUpdate(req)
        /\ req.Body.wellformed /\ req.Body.name = "" /\ req.Body.email = ""
        /\ env'.json = 0)
       => /\ resp'.StatusCode = StatusBadRequest
          /\ resp'.Body = IF req.PathParameters.id # ""
                          THEN "{\"error\":\"no fields to update\"}"
                          ELSE "{\"error\":\"user ID is required\"}"
          /\ calls' = <<>>
          /\ users' = users /\ table' = table
      ]_vars

\* C4 witness: an empty patch for a stored user was answered 400.
C4_Witness ==
    /\ pc = "done" /\ IsUpdate(req)
    /\ req.Body.wellformed /\ req.Body.name = "" /\ req.Body.email = ""
    /\ req.PathParameters.id \in StoredIDs
    /\ resp.StatusCode = StatusBadRequest /\ env.json = 0

\* C5: an OPTIONS request, whatever its path and body, is answered 200 with
\* exactly the common headers (Access-Control-Allow-Origin: * among them) and
\* an empty body, with no repository call and the store as it was.
C5_Preflight ==
    [][(pc = "pending" /\ req.HTTPMethod = MethodOptions)
       => /\ resp'.StatusCode = StatusOK
          /\ resp'.Headers = commonHeaders
          /\ resp'.Headers.kv["Access-Control-Allow-Origin"] = "*"
          /\ resp'.Body = ""
          /\ ~panicked'
          /\ calls' = <<>>
          /\ users' = users /\ table' = table /\ nextUUID' = nextUUID
      ]_vars

\* C5 witness: OPTIONS on the path of the update route, with a body and a
\* stored user, was answered 200.
C5_Witness ==
    /\ pc = "done" /\ req.HTTPMethod = MethodOptions /\ req.Path = UsersIDPath
    /\ req.Body.wellformed /\ req.PathParameters.id \in StoredIDs
    /\ resp.StatusCode = StatusOK

\* The seven routes of Router's table.
RouteTable ==
    {<<MethodGet, RootPath>>, <<MethodGet, HealthPath>>, <<MethodPost, UsersPath>>,
     <<MethodGet, UsersIDPath>>, <<MethodGet, UsersPath>>, <<MethodPut, UsersIDPath>>,
     <<MethodDelete, UsersIDPath>>}

\* C6: a request that is not OPTIONS and whose method and path are not one of
\* the seven routes is answered 404 {"error":"not found"}, with no repository
\* call and the store as it was.
C6_Unmatched ==
    [][(/\ pc = "pending"
        /\ req.HTTPMethod # MethodOptions
        /\ <<req.HTTPMethod, req.Path>> \notin RouteTable
        /\ env'.json = 0)
       => /\ resp'.StatusCode = StatusNotFound
          /\ resp'.Body = NotFoundBody
          /\ ~panicked'
          /\ calls' = <<>>
          /\ users' = users /\ table' = table /\ nextUUID' = nextUUID
      ]_vars

\* C6 witness: POST on the health path, with a user stored, was answered 404.
C6_Witness ==
    /\ pc = "done" /\ req.HTTPMethod = MethodPost /\ req.Path = HealthPath
    /\ StoredIDs # {} /\ resp.StatusCode = StatusNotFound /\ env.json = 0

\* C7: from the empty store, after N CreateUser calls that succeeded and no
\* delete, GetAllUsers (no backend call failing) returns exactly N users
\* whose ids are the ids those creates returned, in some order, and GET
\* /users answers 200 with that list.
C7_ListAfterCreates ==
    (pc = "done" /\ IsList(req) /\ deleted = {} /\ env.db = "none")
    => \E c \in CallsOf(calls, {"GetAllUsers"}) :
          /\ Len(c.out) = Len(created)
          /\ {c.out[i].ID : i \in 1..Len(c.out)} = {created[i] : i \in 1..Len(created)}
          /\ Cardinality({created[i] : i \in 1..Len(created)}) = Len(created)
          /\ env.json = 0 => (resp.StatusCode = StatusOK
                              /\ resp.Body = JSONMarshal(ListBody(c.out)))

\* C7 witness: the in-memory list of two created users, visited in the order
\* opposite to their creation.
C7_Witness ==
    /\ pc = "done" /\ IsList(req) /\ deleted = {} /\ backend = "memory"
    /\ Len(created) = 2 /\ env.order # DefaultOrder
    /\ resp.StatusCode = StatusOK /\ env.json = 0

C9_OnlyAbsenceIs404 ==
    (/\ pc = "done" /\ backend = "dynamodb"
     /\ (IsGet(req) \/ IsUpdate(req) \/ IsDelete(req))
     /\ env.json = 0)
    => /\ \A c \in CallsOf(calls, {"GetUserByID", "UpdateUser", "DeleteUser"}) :
            /\ c.err = "user not found" => resp.StatusCode = StatusNotFound
            /\ c.err \notin {"", "user not found"}
                 => (resp.StatusCode = StatusInternalServerError
                     /\ resp.Body = JSONMarshal(ErrorBody(c.err)))
       /\ resp.StatusCode = StatusNotFound
            => \E c \in CallsOf(calls, {"GetUserByID", "UpdateUser", "DeleteUser"}) :
                  c.err = "user not found"

HandlerHeaderValues ==
    [k \in {"Content-Type", "Access-Control-Allow-Origin", "X-Request-Id"} |->
        CASE k = "Content-Type" -> "text/plain"
          [] k = "Access-Control-Allow-Origin" -> "https://example.com"
          [] k = "X-Request-Id" -> "r1"]
HandlerHeaderMaps ==
    {NilMap} \cup {MakeMap([k \in ks |-> HandlerHeaderValues[k]]) : ks \in SUBSET DOMAIN HandlerHeaderValues}
\* What Router returns for a handler that returned a response with these
\* headers and a nil error.
Merged(headers) ==
    RouterReturn(Outcome([response |-> Response(StatusOK, headers, ""), err |-> ""], Repo, <<>>),
                 [response |-> ZeroResponse, err |-> ""]).response.Headers

\* C11: every Response Router returns carries the five common header keys;
\* a key the handler's response set keeps the handler's value; merging the
\* common headers into the returned headers once more changes nothing.  The
\* same holds of the merge for any header map a handler could return with a
\* nil error.
C11_HeaderMerge ==
    [][(pc = "pending" /\ ~panicked')
       => /\ ~resp'.Headers.isNil
          /\ CommonHeaderKeys \subseteq DOMAIN resp'.Headers.kv
          /\ req.HTTPMethod # MethodOptions
                => \A k \in DOMAIN RouteSwitch(req, Repo, env').response.Headers.kv :
                        resp'.Headers.kv[k] = RouteSwitch(req, Repo, env').response.Headers.kv[k]
          /\ MergeCommon(resp'.Headers) = resp'.Headers
          /\ \A hm \in HandlerHeaderMaps :
                /\ CommonHeaderKeys \subseteq DOMAIN Merged(hm).kv
                /\ \A k \in DOMAIN hm.kv : Merged(hm).kv[k] = hm.kv[k]
                /\ \A k \in CommonHeaderKeys \ DOMAIN hm.kv : Merged(hm).kv[k] = commonHeaders.kv[k]
                /\ MergeCommon(Merged(hm)) = Merged(hm)
      ]_vars

\* C11 witness: a create answered 201, its Content-Type set by the handler
\* and the four CORS headers added by Router.
C11_Witness ==
    /\ pc = "done" /\ IsCreate(req) /\ resp.StatusCode = StatusCreated
    /\ ~resp.Headers.isNil
    /\ DOMAIN resp.Headers.kv = CommonHeaderKeys
    /\ resp.Headers.kv["Access-Control-Allow-Credentials"] = "true"

GatewayEvent(r) == [r EXCEPT !.PathParameters = [id |-> PathValue(r.Path)]]

\* C12: in server mode every request, whatever the table holds, is answered
\* with the status code, the body and the headers that Router returns for
\* the same request (no call failing).
C12_ServerMatchesRouter ==
    [][(pc = "pending" /\ env'.db = "none" /\ env'.json = 0)
       => /\ resp'.StatusCode = Router(GatewayEvent(req), Repo, env').response.StatusCode
          /\ resp'.Body = Router(GatewayEvent(req), Repo, env').response.Body
          /\ resp'.Headers = Router(GatewayEvent(req), Repo, env').response.Headers
      ]_vars

\* C13: the local server stops listening only when the main goroutine has
\* received a signal; from then on no connection is accepted and no further
\* request is taken; a request being served is cut only when the grace
\* period has run out; the main goroutine is never left draining past the
\* grace period; and once a signal is delivered the process eventually ends.
C13_GracefulShutdown ==
    /\ [][(main = "waiting" /\ main' # "waiting") => stop = 1]_vars
    /\ [](main = "waiting" => listener = "open")
    /\ [][(main # "waiting" \/ main' # "waiting")
            => \A c \in Conns : conns'[c] = "active" => conns[c] = "active"]_vars
    /\ [][\A c \in Conns : (conns[c] = "active" /\ conns'[c] # "active")
            => \/ conns'[c] \in {"idle", "closed"}
               \/ (conns'[c] = "aborted" /\ elapsed = ShutdownTimeout /\ main' = "fatal")]_vars
    /\ [](main = "stopped" => \A c \in Conns : conns[c] \notin {"active", "aborted"})
    /\ [](elapsed <= ShutdownTimeout)
    /\ (stop = 1) ~> (main \in {"stopped", "fatal"})

\* C13 witness: two requests were being served when Shutdown was called,
\* both finished within the grace period, and the server stopped.
C13_Witness ==
    /\ main = "stopped"
    /\ Cardinality(inflight) = 2
    /\ \A c \in inflight : conns[c] = "closed"
    /\ elapsed \in 1..(ShutdownTimeout - 1)

\* C14: when a DELETE of a stored id, answered 204, has removed the user
\* after a PUT for the same id read it and before that PUT writes, the PUT is
\* answered 404 and the user is absent once the PUT has returned.
C14_UpdateAfterDelete ==
    [][\A p, q \in Procs :
        (/\ p # q
         /\ procs[p].pc = "read" /\ procs'[p].pc = "done"
         /\ procs[q].pc = "done" /\ IsDelete(procs[q].req)
         /\ procs[q].req.PathParameters.id = procs[p].req.PathParameters.id
         /\ procs[q].resp.StatusCode = StatusNoContent
         /\ procs[p].req.PathParameters.id \notin StoredIDs)
        => /\ procs'[p].resp.StatusCode = StatusNotFound
           /\ procs[p].req.PathParameters.id \notin StoredIDs'
      ]_vars

\* C15: when two PUTs for the same id, one with only a name and one with
\* only an email, have both been answered 200, the stored user has that name
\* and that email.
C15_NoLostUpdate ==
    \A p, q \in Procs :
        (/\ p # q
         /\ procs[p].pc = "done" /\ IsUpdate(procs[p].req)
         /\ procs[q].pc = "done" /\ IsUpdate(procs[q].req)
         /\ procs[p].req.PathParameters.id = procs[q].req.PathParameters.id
         /\ procs[p].req.Body.name # "" /\ procs[p].req.Body.email = ""
         /\ procs[q].req.Body.name = "" /\ procs[q].req.Body.email # ""
         /\ procs[p].resp.StatusCode = StatusOK
         /\ procs[q].resp.StatusCode = StatusOK)
        => /\ UserAt(procs[p].req.PathParameters.id).Name = procs[p].req.Body.name
           /\ UserAt(procs[p].req.PathParameters.id).Email = procs[q].req.Body.email

====
